---- MODULE Spec2Model ----
(***************************************************************************)
(* Model of the two stateful slices of the tencent-ace-tools front end:    *)
(*                                                                         *)
(*  - the log aggregator, LoggerProvider (src/providers/logger-provider.tsx)*)
(*    a useSet<LogEvent> fed by the events.logEvent.listen callback, with  *)
(*    the openLoggerViewer flag;                                           *)
(*  - the guarded action runner, useAceProcessController                   *)
(*    (src/hooks/use-ace-process-controller.ts) and the dashboard          *)
(*    AceProcessController (src/components/ace-process-controller.tsx):    *)
(*    the guard-process query, tryOptimizeProcesses and handleOptimize.    *)
(*                                                                         *)
(* The UI runs on one cooperative thread: every action below is one        *)
(* synchronous run of a handler, an effect or a promise continuation.      *)
(* The native backend and the bridge to it are the environment: a command  *)
(* answers ok or error at some later step, a log event reaches the         *)
(* callbacks registered at the time it is emitted.                         *)
(***************************************************************************)
EXTENDS Integers, Sequences, FiniteSets, TLC

\* ---- bounds of the model ----
MaxEmits == 2
NumLogValues == 2
MaxFetches == 3
MaxInvocations == 2
MaxProcs == 2
\* Characters in the window id typed on the debug page.
MaxIdLen == 2
\* Largest value typed into a region field.
MaxCoord == 1
\* OCR commands in flight at once.
MaxOcr == 2

LogValues == 1..NumLogValues
\* useEffect(..., []) runs once per mount; under <StrictMode> (main.tsx) a
\* development build runs it, cleans it up and runs it again.
Effects == {1, 2}
Errors == {"permission denied", "backend unavailable"}
\* guard.data: undefined until a fetch has succeeded, the fetched records after.
Undef == [defined |-> FALSE, records |-> <<>>]
Data(records) == [defined |-> TRUE, records |-> records]

VARIABLES
    app,               \* "unmounted" | "mounted" | "torn": the React root
    subs,              \* per effect run: the logEvent subscription it made
    logs,              \* the useSet<LogEvent>, in insertion order
    queue,             \* log events emitted by the backend, not yet run by JS
    emits,             \* number of log events the backend has emitted to a listener
    openLoggerViewer,  \* useState(false)
    qData,             \* guard.data
    qError,            \* guard.isError
    qCurrent,          \* id of the fetch the guard query is waiting for, 0 = idle
    inflight,          \* ids of getAceGuardProcesses calls the backend has not answered
    fetchSeq,          \* number of guard fetches started so far
    inv,               \* per handleOptimize click: the tryOptimizeProcesses invocation
    nInv,              \* number of handleOptimize clicks so far
    toasts,            \* the toast.error notifications raised, in order
    ctx,               \* the value last given to LoggerContext.Provider
    admin,             \* the running-as-admin query of RunningStatus
    debug              \* the Windows component of the debug page

loggerVars == <<subs, logs, queue, emits, openLoggerViewer, ctx>>
pageVars == <<admin, debug>>
queryVars == <<qData, qError, qCurrent, inflight, fetchSeq>>
runnerVars == <<qData, qError, qCurrent, inflight, fetchSeq, inv, nInv, toasts>>
vars == <<app, subs, logs, queue, emits, openLoggerViewer,
          qData, qError, qCurrent, inflight, fetchSeq, inv, nInv, toasts,
          ctx, admin, debug>>

\* ------------------------------------------------------------------------
\* Log aggregator
\* ------------------------------------------------------------------------

\* One subscription: the promise returned by events.logEvent.listen and the
\* listener behind it.
\*   phase     "none"        the effect has not run
\*             "registering" listen() was called, the backend has not registered it
\*             "listening"   registered: emitted events reach the callback
\*             "unlistened"  the unlisten function f() has been called
\*   resolved  the promise `unlisten` has resolved in JS
\*   cleanup   the effect's cleanup has run
\*   unlistenCalls  number of times f() was called
NoSub == [phase |-> "none", resolved |-> FALSE, cleanup |-> FALSE, unlistenCalls |-> 0]

\* f(): the listener is removed.
CallUnlisten(s) ==
    [s EXCEPT !.phase = "unlistened", !.unlistenCalls = s.unlistenCalls + 1]

\* const unlisten = events.logEvent.listen(...)
EffectRun(s) == [s EXCEPT !.phase = "registering"]

\* return () => { unlisten.then((f) => f()); }
\* the continuation runs at once when the promise has resolved, and when it
\* resolves otherwise.
EffectCleanup(s) ==
    IF s.resolved
    THEN CallUnlisten([s EXCEPT !.cleanup = TRUE])
    ELSE [s EXCEPT !.cleanup = TRUE]

\* A faulty insertion: the collection is capped and the oldest entry evicted.
SetAddEvicting(set, payload) ==
    IF \E i \in 1..Len(set) : set[i].id = payload.id
    THEN set
    ELSE IF Len(set) >= 1 THEN Append(Tail(set), payload)
    ELSE Append(set, payload)

\* Set.prototype.add of useSet: membership of an object is its identity.
SetAdd(set, payload) ==
    IF \E i \in 1..Len(set) : set[i].id = payload.id
    THEN set
    ELSE Append(set, payload)

\* The backend registers the listener of effect run k.
BackendRegister(k) ==
    /\ subs[k].phase = "registering"
    /\ subs' = [subs EXCEPT ![k].phase = "listening"]
    /\ UNCHANGED <<app, logs, queue, emits, openLoggerViewer>>
    /\ UNCHANGED runnerVars
    /\ UNCHANGED <<ctx, admin, debug>>

\* A faulty resolution: the continuation chained by an earlier cleanup is lost.
ListenResolvedNoChain(k) ==
    /\ subs[k].phase = "listening"
    /\ ~subs[k].resolved
    /\ subs' = [subs EXCEPT ![k].resolved = TRUE]
    /\ UNCHANGED <<app, logs, queue, emits, openLoggerViewer>>
    /\ UNCHANGED runnerVars
    /\ UNCHANGED <<ctx, admin, debug>>

\* The listen promise of effect run k resolves; a cleanup that ran before
\* has chained f => f() on it.
ListenResolved(k) ==
    /\ subs[k].phase = "listening"
    /\ ~subs[k].resolved
    /\ LET s == [subs[k] EXCEPT !.resolved = TRUE]
       IN  subs' = [subs EXCEPT ![k] = IF s.cleanup THEN CallUnlisten(s) ELSE s]
    /\ UNCHANGED <<app, logs, queue, emits, openLoggerViewer>>
    /\ UNCHANGED runnerVars
    /\ UNCHANGED <<ctx, admin, debug>>

\* The backend emits one LogEvent of value v. Every listener registered at
\* that moment gets a delivery. Whether two listeners are handed the same
\* payload object or two deserialized copies is the bridge's business: both.
\* An event emitted while nobody listens is lost and changes nothing.
Emit(v, shared) ==
    /\ emits < MaxEmits
    /\ LET targets == {k \in Effects : subs[k].phase = "listening"}
           payload(k) == [id |-> <<emits + 1, IF shared THEN 0 ELSE k>>, val |-> v]
           deliveries(S) == IF S = {} THEN <<>>
                            ELSE IF 1 \in S /\ 2 \in S
                                 THEN <<[to |-> 1, payload |-> payload(1)],
                                        [to |-> 2, payload |-> payload(2)]>>
                                 ELSE LET k == CHOOSE x \in S : TRUE
                                      IN <<[to |-> k, payload |-> payload(k)]>>
       IN  /\ targets # {}
           /\ (shared => Cardinality(targets) > 1)
           /\ queue' = queue \o deliveries(targets)
    /\ emits' = emits + 1
    /\ UNCHANGED <<app, subs, logs, openLoggerViewer>>
    /\ UNCHANGED runnerVars
    /\ UNCHANGED <<ctx, admin, debug>>

\* A faulty delivery: the callback runs even after its listener was removed.
DeliverAlways ==
    /\ queue # <<>>
    /\ logs' = SetAdd(logs, Head(queue).payload)
    /\ queue' = Tail(queue)
    /\ UNCHANGED <<app, subs, emits, openLoggerViewer>>
    /\ UNCHANGED runnerVars
    /\ UNCHANGED <<ctx, admin, debug>>

\* A faulty callback: a received log also opens the viewer.
DeliverOpening ==
    /\ queue # <<>>
    /\ LET d == Head(queue)
       IN  /\ logs' = IF subs[d.to].phase = "listening"
                      THEN SetAdd(logs, d.payload)
                      ELSE logs
           /\ openLoggerViewer' = IF subs[d.to].phase = "listening"
                                  THEN TRUE
                                  ELSE openLoggerViewer
    /\ queue' = Tail(queue)
    /\ UNCHANGED <<app, subs, emits>>
    /\ UNCHANGED runnerVars
    /\ UNCHANGED <<ctx, admin, debug>>

\* ({ payload }) => { logs.add(payload); }
\* JS runs the oldest delivery: the callback is called if its listener has
\* not been unlistened, and the delivery is dropped otherwise.
Deliver ==
    /\ queue # <<>>
    /\ LET d == Head(queue)
       IN  logs' = IF subs[d.to].phase = "listening"
                   THEN SetAdd(logs, d.payload)
                   ELSE logs
    /\ queue' = Tail(queue)
    /\ UNCHANGED <<app, subs, emits, openLoggerViewer>>
    /\ UNCHANGED runnerVars
    /\ UNCHANGED <<ctx, admin, debug>>

\* A faulty setter: closing the viewer also empties the collection.
SetOpenLoggerViewerClearing(open) ==
    /\ openLoggerViewer' = open
    /\ logs' = IF open THEN logs ELSE <<>>
    /\ UNCHANGED <<app, subs, queue, emits>>
    /\ UNCHANGED runnerVars
    /\ UNCHANGED <<ctx, admin, debug>>

\* setOpenLoggerViewer(open)
SetOpenLoggerViewer(open) ==
    /\ openLoggerViewer' = open
    /\ UNCHANGED <<app, subs, logs, queue, emits>>
    /\ UNCHANGED runnerVars
    /\ UNCHANGED <<ctx, admin, debug>>

\* logs.size
SetSize(set) == Cardinality({set[n].id : n \in 1..Len(set)})

\* Array.from(logs)
ArrayFrom(set) == [n \in 1..Len(set) |-> set[n]]

\* A faulty context value: the length is computed once and kept.
ContextValueStaleLength ==
    [logs |-> ArrayFrom(logs), length |-> ctx.length,
     openLoggerViewer |-> openLoggerViewer]

\* value={{ logs: Array.from(logs), length: logs.size, openLoggerViewer,
\*          setOpenLoggerViewer }}
ContextValue ==
    [logs |-> ArrayFrom(logs), length |-> SetSize(logs),
     openLoggerViewer |-> openLoggerViewer]

\* A render of LoggerProvider, scheduled by logs.add or setOpenLoggerViewer:
\* a new context value is published.
Render ==
    /\ app = "mounted"
    /\ ctx # ContextValue
    /\ ctx' = ContextValue
    /\ UNCHANGED <<app, subs, logs, queue, emits, openLoggerViewer>>
    /\ UNCHANGED runnerVars
    /\ UNCHANGED pageVars

\* LoggerViewerButton, rendered while the viewer is closed.
HandleViewerToggle ==
    /\ app = "mounted"
    /\ ~openLoggerViewer
    /\ SetOpenLoggerViewer(~openLoggerViewer)

\* The close button of AppFooter, rendered while the viewer is open.
CloseViewer ==
    /\ app = "mounted"
    /\ openLoggerViewer
    /\ SetOpenLoggerViewer(FALSE)

\* ------------------------------------------------------------------------
\* Guarded action runner
\* ------------------------------------------------------------------------

\* The guard-process list the backend answers with: one is_optimized flag
\* per process record.
RECURSIVE SeqsUpTo(_)
SeqsUpTo(n) ==
    IF n = 0 THEN {<<>>}
    ELSE LET shorter == SeqsUpTo(n - 1)
         IN  shorter \cup {Append(s, b) : s \in {t \in shorter : Len(t) = n - 1}, b \in BOOLEAN}
ProcLists == SeqsUpTo(MaxProcs)

\* The uniform result contract of the bindings: a success payload or a
\* failure description.
Ok(data) == [status |-> "ok", data |-> data]
Err(e) == [status |-> "error", error |-> e]
CommandResults == {Ok("done")} \cup {Err(e) : e \in Errors}
FetchResults == {Ok(d) : d \in ProcLists} \cup {Err(e) : e \in Errors}

\* unwrapResult (@/lib/result): the payload, or the failure thrown.
UnwrapResult(r) ==
    IF r.status = "ok"
    THEN [threw |-> FALSE, value |-> r.data]
    ELSE [threw |-> TRUE, error |-> r.error]

\* formatError (@/lib/fmt): the text shown for a thrown failure.
FormatError(e) == <<"error", e>>

\* Query.fetch of the guard query. A fetch call starts a new backend call
\* when the query is idle; when one is in flight, refetch() (cancelRefetch)
\* abandons it for a new one if the query already has data, and every other
\* call joins the one in flight.
StartsNew(cancelRefetch) ==
    \/ qCurrent = 0
    \/ qData # Undef /\ cancelRefetch

\* The id of the fetch whose promise the call returns.
FetchTarget(cancelRefetch) ==
    IF StartsNew(cancelRefetch) THEN fetchSeq + 1 ELSE qCurrent

QueryFetch(cancelRefetch) ==
    IF StartsNew(cancelRefetch)
    THEN /\ fetchSeq < MaxFetches
         /\ fetchSeq' = fetchSeq + 1
         /\ qCurrent' = fetchSeq + 1
         /\ inflight' = inflight \cup {fetchSeq + 1}
         /\ qError' = IF qData = Undef THEN FALSE ELSE qError
         /\ UNCHANGED qData
    ELSE UNCHANGED queryVars

\* guard.refetch()
Refetch == QueryFetch(TRUE)

\* One tryOptimizeProcesses invocation, started by a handleOptimize click.
\*   pc            "idle" | "cmd" (awaiting the command) | "refetch" (awaiting
\*                 guard.refetch()) | "done" | "failed" (rejected and caught)
\*   cmdCalls      optimizeAceGuardProcesses calls issued
\*   refetchCalls  guard.refetch() calls made
\*   fetched       id of the fetch that call started, 0 if it started none
\*   awaited       id of the fetch whose promise is awaited
\*   error         the failure thrown, "" if none
NoInv == [pc |-> "idle", cmdCalls |-> 0, refetchCalls |-> 0, fetched |-> 0,
          awaited |-> 0, error |-> ""]

Invocations == 1..MaxInvocations

\* A faulty invocation: the command and the refetch are issued together.
TryOptimizeProcessesEager(i) ==
    /\ Refetch
    /\ inv' = [inv EXCEPT ![i] = [NoInv EXCEPT !.pc = "cmd", !.cmdCalls = 1,
                                               !.refetchCalls = 1,
                                               !.fetched = IF StartsNew(TRUE) THEN fetchSeq + 1 ELSE 0,
                                               !.awaited = FetchTarget(TRUE)]]

\* const result = unwrapResult(await commands.optimizeAceGuardProcesses());
\* up to the await: the command is issued.
TryOptimizeProcesses(i) ==
    /\ inv' = [inv EXCEPT ![i] = [NoInv EXCEPT !.pc = "cmd", !.cmdCalls = 1]]
    /\ UNCHANGED queryVars

\* A faulty control: after a failed invocation it stays in an error state
\* and takes no further trigger.
HandleOptimizeLatched ==
    /\ app = "mounted"
    /\ nInv < MaxInvocations
    /\ \A i \in Invocations : inv[i].pc # "failed"
    /\ nInv' = nInv + 1
    /\ TryOptimizeProcesses(nInv + 1)
    /\ UNCHANGED <<app, toasts>>
    /\ UNCHANGED loggerVars
    /\ UNCHANGED pageVars

\* <Button onClick={handleOptimize}>: try { await tryOptimizeProcesses(); }
HandleOptimize ==
    /\ app = "mounted"
    /\ nInv < MaxInvocations
    /\ nInv' = nInv + 1
    /\ TryOptimizeProcesses(nInv + 1)
    /\ UNCHANGED <<app, toasts>>
    /\ UNCHANGED loggerVars
    /\ UNCHANGED pageVars

\* A faulty catch: the failure is swallowed.
HandleOptimizeCatchSilent(ts, i, error) == ts

\* catch (error) { toast.error("Failed to optimize processes. ...",
\*                             { description: formatError(error) }); }
HandleOptimizeCatch(ts, i, error) ==
    Append(ts, [inv |-> i, description |-> FormatError(error)])

\* The continuation of tryOptimizeProcesses after the command's await, for a
\* command that did not throw: await guard.refetch().
AwaitRefetch(i) ==
    /\ Refetch
    /\ inv' = [inv EXCEPT ![i].pc = "refetch",
                          ![i].refetchCalls = inv[i].refetchCalls + 1,
                          ![i].fetched = IF StartsNew(TRUE) THEN fetchSeq + 1 ELSE 0,
                          ![i].awaited = FetchTarget(TRUE)]
    /\ UNCHANGED toasts

\* A faulty continuation: a failed command is issued once more before giving up.
RetryCommand(i, error) ==
    IF inv[i].cmdCalls < 2
    THEN /\ inv' = [inv EXCEPT ![i].cmdCalls = inv[i].cmdCalls + 1]
         /\ UNCHANGED toasts
         /\ UNCHANGED queryVars
    ELSE /\ inv' = [inv EXCEPT ![i].pc = "failed", ![i].error = error]
         /\ toasts' = Append(toasts, [inv |-> i, description |-> FormatError(error)])
         /\ UNCHANGED queryVars

\* The continuation for a command that threw: tryOptimizeProcesses rejects
\* and handleOptimize catches.
RejectAndCatch(i, error) ==
    /\ inv' = [inv EXCEPT ![i].pc = "failed", ![i].error = error]
    /\ toasts' = HandleOptimizeCatch(toasts, i, error)
    /\ UNCHANGED queryVars

\* The backend answers the optimize command of invocation i with res.
CommandSettle(i, res) ==
    /\ inv[i].pc = "cmd"
    /\ LET u == UnwrapResult(res)
       IN  IF u.threw THEN RejectAndCatch(i, u.error) ELSE AwaitRefetch(i)
    /\ UNCHANGED <<app, nInv>>
    /\ UNCHANGED loggerVars
    /\ UNCHANGED pageVars

\* A faulty settle: the refetch promise rejects when its fetch failed, and
\* handleOptimize catches that too.
RefetchSettledThrowing(i) ==
    /\ inv[i].pc = "refetch"
    /\ inv[i].awaited # qCurrent
    /\ IF qError
       THEN /\ inv' = [inv EXCEPT ![i].pc = "failed", ![i].error = "refetch failed"]
            /\ toasts' = HandleOptimizeCatch(toasts, i, "refetch failed")
       ELSE /\ inv' = [inv EXCEPT ![i].pc = "done"]
            /\ UNCHANGED toasts
    /\ UNCHANGED <<app, nInv>>
    /\ UNCHANGED queryVars
    /\ UNCHANGED loggerVars
    /\ UNCHANGED pageVars

\* The promise of guard.refetch() settles, when its fetch is resolved or
\* abandoned: it never rejects. return result; handleOptimize completes.
RefetchSettled(i) ==
    /\ inv[i].pc = "refetch"
    /\ inv[i].awaited # qCurrent
    /\ inv' = [inv EXCEPT ![i].pc = "done"]
    /\ UNCHANGED <<app, nInv, toasts>>
    /\ UNCHANGED queryVars
    /\ UNCHANGED loggerVars
    /\ UNCHANGED pageVars

\* queryFn: unwrapResult(await commands.getAceGuardProcesses())
\* The backend answers the fetch the query waits for: the data is replaced
\* wholesale on success, and kept on failure.
FetchResolve(res) ==
    /\ qCurrent # 0
    /\ LET u == UnwrapResult(res)
       IN  /\ qData' = IF u.threw THEN qData ELSE Data(u.value)
           /\ qError' = u.threw
    /\ qCurrent' = 0
    /\ inflight' = inflight \ {qCurrent}
    /\ UNCHANGED <<app, fetchSeq, inv, nInv, toasts>>
    /\ UNCHANGED loggerVars
    /\ UNCHANGED pageVars

\* A faulty drop: the answer of an abandoned fetch is written all the same.
FetchDiscardOverwrite(id, res) ==
    /\ id \in inflight
    /\ id # qCurrent
    /\ inflight' = inflight \ {id}
    /\ LET u == UnwrapResult(res)
       IN  /\ qData' = IF u.threw THEN qData ELSE Data(u.value)
           /\ qError' = u.threw
    /\ UNCHANGED <<app, qCurrent, fetchSeq, inv, nInv, toasts>>
    /\ UNCHANGED loggerVars
    /\ UNCHANGED pageVars

\* The backend answers, with res, a fetch that refetch() abandoned: the
\* answer is dropped.
FetchDiscard(id, res) ==
    /\ id \in inflight
    /\ id # qCurrent
    /\ inflight' = inflight \ {id}
    /\ UNCHANGED <<app, qData, qError, qCurrent, fetchSeq, inv, nInv, toasts>>
    /\ UNCHANGED loggerVars
    /\ UNCHANGED pageVars

\* <Button variant="outline" onClick={() => guard.refetch()}>
RefreshClick ==
    /\ app = "mounted"
    /\ Refetch
    /\ UNCHANGED <<app, inv, nInv, toasts>>
    /\ UNCHANGED loggerVars
    /\ UNCHANGED pageVars

\* refetchInterval: 1000 * 60 of the QueryClient defaults.
IntervalRefetch ==
    /\ app = "mounted"
    /\ qCurrent = 0
    /\ QueryFetch(FALSE)
    /\ UNCHANGED <<app, inv, nInv, toasts>>
    /\ UNCHANGED loggerVars
    /\ UNCHANGED pageVars

\* A faulty scan: every record must be optimized.
RECURSIVE Every(_)
Every(data) ==
    IF data = <<>> THEN TRUE
    ELSE IF Head(data) THEN Every(Tail(data))
    ELSE FALSE

\* guard.data?.some((process) => process.is_optimized)
RECURSIVE Some(_)
Some(data) ==
    IF data = <<>> THEN FALSE
    ELSE IF Head(data) THEN TRUE
    ELSE Some(Tail(data))

IsSuccess(data) == IF data = Undef THEN FALSE ELSE Some(data.records)

\* A faulty flag: loading whenever a fetch is in flight (isFetching).
IsFetching == qCurrent # 0

\* guard.isLoading: fetching with no data and no error yet.
IsLoading == qCurrent # 0 /\ qData = Undef /\ ~qError

\* guard.data && guard.data.length > 0
HasRecords == qData # Undef /\ Len(qData.records) > 0

\* <CardContent>: the loader, the record list or the "no processes" text.
View ==
    IF IsLoading THEN "loading"
    ELSE IF HasRecords THEN "list"
    ELSE "empty"

\* The <Badge> under the record list.
Badge ==
    IF ~IsLoading /\ HasRecords
    THEN IF IsSuccess(qData) THEN "optimize_success" ELSE "optimize_no_exec"
    ELSE "none"

\* The text the dashboard derives from isSuccess (badge and button label).
Status == IF IsSuccess(qData) THEN "success" ELSE "not yet optimized"

\* ------------------------------------------------------------------------
\* Running-as-admin indicator
\* ------------------------------------------------------------------------

\* The running-as-admin query before its first fetch: no data, status pending.
NoAdmin == [fetching |-> FALSE, status |-> "pending", defined |-> FALSE, data |-> FALSE]

\* What commands.isRunningAsAdmin() can answer.
AdminResults == {Ok(b) : b \in BOOLEAN} \cup {Err(e) : e \in Errors}

\* queryFn: unwrapResult(await commands.isRunningAsAdmin()); the query takes
\* the value, or records the failure thrown and keeps the data it had.
AdminResolve(res) ==
    /\ admin.fetching
    /\ LET u == UnwrapResult(res)
       IN  admin' = IF u.threw
                    THEN [admin EXCEPT !.fetching = FALSE, !.status = "error"]
                    ELSE [fetching |-> FALSE, status |-> "success",
                          defined |-> TRUE, data |-> u.value]
    /\ UNCHANGED <<app, debug>>
    /\ UNCHANGED loggerVars
    /\ UNCHANGED runnerVars

\* refetchInterval: the idle query fetches again; with no data yet its status
\* goes back to pending.
AdminIntervalRefetch ==
    /\ app = "mounted"
    /\ ~admin.fetching
    /\ admin' = [admin EXCEPT !.fetching = TRUE,
                              !.status = IF admin.defined THEN @ ELSE "pending"]
    /\ UNCHANGED <<app, debug>>
    /\ UNCHANGED loggerVars
    /\ UNCHANGED runnerVars

\* const { isPending, data: status } = useIsRunningAsAdmin();
\* isPending ? <checking> : status ? <running as admin> : <not as admin>
Indicator ==
    IF admin.status = "pending" THEN "pending"
    ELSE IF admin.defined /\ admin.data THEN "admin"
    ELSE "not admin"

\* ------------------------------------------------------------------------
\* Debug page
\* ------------------------------------------------------------------------

\* The characters typed into the window id input: digits and a letter.
Digits == {"1", "2"}
Chars == Digits \cup {"a"}
WindowIds == UNION {[1..n -> Chars] : n \in 0..MaxIdLen}

\* The values a region field is set to.
RegionValues == -1..MaxCoord

\* useState(""), useState<ScreenShot>(), defaultValues: { x: 0, y: 0,
\* width: 0, height: 0 }; no transition running.
NoDebug ==
    [windowId |-> <<>>,
     capturing |-> FALSE,
     captureArg |-> [nan |-> FALSE, value |-> 0],
     screenShot |-> FALSE,
     region |-> [x |-> 0, y |-> 0, width |-> 0, height |-> 0],
     ocrs |-> 0]

DigitValue(c) == CASE c = "1" -> 1 [] c = "2" -> 2

\* The longest prefix of w made of digits.
DigitPrefix(w) ==
    LET n == CHOOSE k \in 0..Len(w) :
                 /\ \A j \in 1..k : w[j] \in Digits
                 /\ (k < Len(w) => w[k + 1] \notin Digits)
    IN  SubSeq(w, 1, n)

RECURSIVE ToNumber(_)
ToNumber(ds) ==
    IF ds = <<>> THEN 0
    ELSE 10 * ToNumber(SubSeq(ds, 1, Len(ds) - 1)) + DigitValue(ds[Len(ds)])

\* parseInt(windowId): the number its leading digits spell, NaN if it has none.
ParseInt(w) ==
    IF DigitPrefix(w) = <<>>
    THEN [nan |-> TRUE, value |-> 0]
    ELSE [nan |-> FALSE, value |-> ToNumber(DigitPrefix(w))]

\* FormSchema: x, y: z.coerce.number().min(0); width, height: ...min(1)
FormSchema(region) ==
    /\ region.x >= 0
    /\ region.y >= 0
    /\ region.width >= 1
    /\ region.height >= 1

\* isPending of useTransition: a capture or an OCR transition is running.
IsPending == debug.capturing \/ debug.ocrs > 0

\* What commands.tryCaptureImageByWindowId can answer.
CaptureResults == {Ok("screenshot"), Ok("null")} \cup {Err(e) : e \in Errors}

\* <Input value={windowId} onChange={(e) => setWindowId(e.target.value)} />
SetWindowId(w) ==
    /\ app = "mounted"
    /\ debug.windowId # w
    /\ debug' = [debug EXCEPT !.windowId = w]
    /\ UNCHANGED <<app, admin>>
    /\ UNCHANGED loggerVars
    /\ UNCHANGED runnerVars

\* <Button onClick={handleCaptureByWindowId} disabled={isPending}>:
\* if (!windowId) return;
\* await commands.tryCaptureImageByWindowId(parseInt(windowId))
HandleCaptureByWindowId ==
    /\ app = "mounted"
    /\ ~IsPending
    /\ debug.windowId # <<>>
    /\ debug' = [debug EXCEPT !.capturing = TRUE,
                              !.captureArg = ParseInt(debug.windowId)]
    /\ UNCHANGED <<app, admin>>
    /\ UNCHANGED loggerVars
    /\ UNCHANGED runnerVars

\* The capture command is answered: unwrapResult throws on a failure, and
\* if (result) setScreenShotResult(result) keeps a screenshot returned.
CaptureSettle(res) ==
    /\ debug.capturing
    /\ LET u == UnwrapResult(res)
       IN  debug' = [debug EXCEPT
                        !.capturing = FALSE,
                        !.screenShot = IF ~u.threw /\ u.value = "screenshot"
                                       THEN TRUE
                                       ELSE @]
    /\ UNCHANGED <<app, admin>>
    /\ UNCHANGED loggerVars
    /\ UNCHANGED runnerVars

\* <NumberInput {...field} />: a region field is edited.
SetRegion(field, v) ==
    /\ app = "mounted"
    /\ debug.region[field] # v
    /\ debug' = [debug EXCEPT !.region[field] = v]
    /\ UNCHANGED <<app, admin>>
    /\ UNCHANGED loggerVars
    /\ UNCHANGED runnerVars

\* <Button onClick={handleOcrScreenRegion} disabled={!screenShotResult || ...}>:
\* form.handleSubmit validates the region against FormSchema and only then
\* runs the callback: if (!screenShotResult) return;
\* await commands.ocrImageRegion(screenShotResult.image_data, data)
HandleOcrScreenRegion ==
    /\ app = "mounted"
    /\ debug.screenShot
    /\ FormSchema(debug.region)
    /\ debug.ocrs < MaxOcr
    /\ debug' = [debug EXCEPT !.ocrs = @ + 1]
    /\ UNCHANGED <<app, admin>>
    /\ UNCHANGED loggerVars
    /\ UNCHANGED runnerVars

\* An OCR command is answered and its transition ends.
OcrSettle ==
    /\ debug.ocrs > 0
    /\ debug' = [debug EXCEPT !.ocrs = @ - 1]
    /\ UNCHANGED <<app, admin>>
    /\ UNCHANGED loggerVars
    /\ UNCHANGED runnerVars

\* ------------------------------------------------------------------------
\* The React root
\* ------------------------------------------------------------------------

\* root.render(<StrictMode><RootProvider>...): the first commit. The effect
\* of LoggerProvider runs (twice with a cleanup between, when strict), and
\* the guard query of the dashboard and the running-as-admin query of the
\* sidebar start their first fetch.
Mount(strict) ==
    /\ app = "unmounted"
    /\ app' = "mounted"
    /\ subs' = IF strict
               THEN [subs EXCEPT ![1] = EffectCleanup(EffectRun(subs[1])),
                                 ![2] = EffectRun(subs[2])]
               ELSE [subs EXCEPT ![1] = EffectRun(subs[1])]
    /\ QueryFetch(FALSE)
    /\ admin' = [admin EXCEPT !.fetching = TRUE]
    /\ UNCHANGED <<logs, queue, emits, openLoggerViewer, inv, nInv, toasts>>
    /\ UNCHANGED <<ctx, debug>>

\* Teardown of the root: the cleanup of the live effect runs.
Unmount ==
    /\ app = "mounted"
    /\ app' = "torn"
    /\ subs' = [k \in Effects |->
                  IF subs[k].phase # "none" /\ ~subs[k].cleanup
                  THEN EffectCleanup(subs[k])
                  ELSE subs[k]]
    /\ UNCHANGED <<logs, queue, emits, openLoggerViewer>>
    /\ UNCHANGED runnerVars
    /\ UNCHANGED <<ctx, admin, debug>>

Init ==
    /\ app = "unmounted"
    /\ subs = [k \in Effects |-> NoSub]
    /\ logs = <<>>
    /\ queue = <<>>
    /\ emits = 0
    /\ openLoggerViewer = FALSE
    /\ qData = Undef
    /\ qError = FALSE
    /\ qCurrent = 0
    /\ inflight = {}
    /\ fetchSeq = 0
    /\ inv = [i \in Invocations |-> NoInv]
    /\ nInv = 0
    /\ toasts = <<>>
    /\ ctx = [logs |-> <<>>, length |-> 0, openLoggerViewer |-> FALSE]
    /\ admin = NoAdmin
    /\ debug = NoDebug

\* The log aggregator, with the dashboard left alone.
LoggerNext ==
    \/ \E strict \in BOOLEAN : Mount(strict)
    \/ Unmount
    \/ \E k \in Effects : BackendRegister(k)
    \/ \E k \in Effects : ListenResolved(k)
    \/ \E v \in LogValues, shared \in BOOLEAN : Emit(v, shared)
    \/ Deliver
    \/ HandleViewerToggle
    \/ CloseViewer
    \/ Render

LoggerSpec == Init /\ [][LoggerNext]_vars

\* The action runner: a production build (no StrictMode double effect) that
\* stays mounted, with no log event emitted. The answer to an abandoned
\* fetch is dropped unread, so one answer stands for all of them here.
RunnerNext ==
    \/ Mount(FALSE)
    \/ HandleOptimize
    \/ \E i \in Invocations, res \in CommandResults : CommandSettle(i, res)
    \/ \E i \in Invocations : RefetchSettled(i)
    \/ \E res \in FetchResults : FetchResolve(res)
    \/ \E id \in 1..MaxFetches : FetchDiscard(id, Ok(<<>>))
    \/ RefreshClick
    \/ IntervalRefetch

RunnerSpec == Init /\ [][RunnerNext]_vars

\* The guard query with at most one optimize invocation, every answer to an
\* abandoned fetch told apart.
FetchNext ==
    \/ Mount(FALSE)
    \/ nInv = 0 /\ HandleOptimize
    \/ \E i \in Invocations, res \in CommandResults : CommandSettle(i, res)
    \/ \E i \in Invocations : RefetchSettled(i)
    \/ \E res \in FetchResults : FetchResolve(res)
    \/ \E id \in 1..MaxFetches, res \in FetchResults : FetchDiscard(id, res)
    \/ RefreshClick
    \/ IntervalRefetch

FetchSpec == Init /\ [][FetchNext]_vars

\* The whole window in a production build: one log event, one optimize
\* invocation, the guard query and the running-as-admin query side by side.
AppNext ==
    \/ Mount(FALSE)
    \/ \E k \in Effects : BackendRegister(k)
    \/ \E k \in Effects : ListenResolved(k)
    \/ emits = 0 /\ \E v \in LogValues : Emit(v, FALSE)
    \/ Deliver
    \/ HandleViewerToggle
    \/ CloseViewer
    \/ Render
    \/ nInv = 0 /\ HandleOptimize
    \/ \E i \in Invocations, res \in CommandResults : CommandSettle(i, res)
    \/ \E i \in Invocations : RefetchSettled(i)
    \/ \E res \in FetchResults : FetchResolve(res)
    \/ \E res \in AdminResults : AdminResolve(res)
    \/ AdminIntervalRefetch

AppSpec == Init /\ [][AppNext]_vars

\* The debug page of a mounted window.
DebugNext ==
    \/ Mount(FALSE)
    \/ \E w \in WindowIds : SetWindowId(w)
    \/ HandleCaptureByWindowId
    \/ \E res \in CaptureResults : CaptureSettle(res)
    \/ \E field \in {"x", "y", "width", "height"}, v \in RegionValues :
           SetRegion(field, v)
    \/ HandleOcrScreenRegion
    \/ OcrSettle

DebugSpec == Init /\ [][DebugNext]_vars

\* ------------------------------------------------------------------------
\* Properties
\* ------------------------------------------------------------------------

Settled(i) == inv[i].pc \in {"done", "failed"}
ToastsOf(i) == {n \in 1..Len(toasts) : toasts[n].inv = i}

\* C1: once a tryOptimizeProcesses invocation has settled, by success or by
\* failure of the command, it has made exactly one guard.refetch() call, and
\* that call started a fetch of its own (one not in flight before).
C1_RefetchAfterSettle ==
    \A i \in Invocations :
        Settled(i) => /\ inv[i].refetchCalls = 1
                      /\ inv[i].fetched # 0

\* C2: the log collection never holds two entries of the same value.
C2_NoValueDuplicates ==
    \A m, n \in 1..Len(logs) : m # n => logs[m].val # logs[n].val

\* C3: at most one tryOptimizeProcesses invocation is unsettled (command or
\* refetch pending) at any time.
C3_AtMostOneSequence ==
    Cardinality({i \in Invocations : inv[i].pc \in {"cmd", "refetch"}}) <= 1

\* C4: once the root is torn down and f() has been called on every
\* subscription made, no step changes the log collection; and a delivery
\* addressed to a listener already unlistened is never inserted.
TornDown ==
    /\ app = "torn"
    /\ \A k \in Effects : subs[k].phase \in {"none", "unlistened"}
C4_NoInsertAfterUnlisten ==
    [][/\ TornDown => logs' = logs
       /\ (queue # <<>> /\ queue' = Tail(queue)
             /\ subs[Head(queue).to].phase = "unlistened") => logs' = logs]_vars
\* A production mount (one subscription) was torn down, and at least one of
\* the events emitted to it arrived after f() and was dropped.
C4_Witness ==
    /\ TornDown
    /\ subs[2].phase = "none"
    /\ queue = <<>>
    /\ emits = MaxEmits
    /\ Len(logs) < emits

\* C5: at no time are two subscriptions of the aggregator registered and
\* feeding the collection.
C5_SingleSubscription ==
    Cardinality({k \in Effects : subs[k].phase = "listening"}) <= 1

\* C6: while the optimize command of an invocation is unsettled, that
\* invocation has issued no guard.refetch().
C6_RefetchAfterCommand ==
    \A i \in Invocations :
        inv[i].pc = "cmd" => /\ inv[i].refetchCalls = 0
                             /\ inv[i].fetched = 0
                             /\ inv[i].awaited = 0
\* An invocation whose command has settled is awaiting the fetch it started.
C6_Witness ==
    \E i \in Invocations :
        /\ inv[i].pc = "refetch"
        /\ inv[i].refetchCalls = 1
        /\ inv[i].fetched # 0
        /\ inv[i].fetched = qCurrent

C8_ToastOnFailureOnly ==
    \A i \in Invocations :
        IF inv[i].pc = "failed"
        THEN /\ Cardinality(ToastsOf(i)) = 1
             /\ \A n \in ToastsOf(i) : toasts[n].description = FormatError(inv[i].error)
        ELSE ToastsOf(i) = {}
\* One invocation failed and was notified, another succeeded and returned.
C8_Witness ==
    /\ \E i \in Invocations : inv[i].pc = "failed" /\ inv[i].error = "permission denied"
    /\ \E i \in Invocations : inv[i].pc = "done"
    /\ Len(toasts) = 1

\* C9: a step that changes the viewer visibility leaves the log collection
\* (and so its size) unchanged.
C9_VisibilityKeepsLogs ==
    [][openLoggerViewer' # openLoggerViewer => logs' = logs]_vars
\* The viewer is open over a non-empty collection, with a delivery pending.
C9_Witness ==
    /\ openLoggerViewer
    /\ Len(logs) >= 1
    /\ queue # <<>>

\* C10: every invocation that has begun has issued the optimize command
\* exactly once, also after the command failed; one that has not begun has
\* issued none.
C10_CommandOnce ==
    \A i \in Invocations :
        inv[i].cmdCalls = IF inv[i].pc = "idle" THEN 0 ELSE 1
\* An invocation failed, and one completed.
C10_Witness ==
    /\ \E i \in Invocations : inv[i].pc = "failed" /\ inv[i].cmdCalls = 1
    /\ \E i \in Invocations : inv[i].pc = "done" /\ inv[i].cmdCalls = 1

\* C11: the log collection only grows: every step keeps every record already
\* inserted, unaltered and in place, so the size never decreases; this holds
\* of the steps taken through the context (setOpenLoggerViewer) as of all others.
C11_LogsOnlyGrow ==
    [][/\ Len(logs') >= Len(logs)
       /\ \A n \in 1..Len(logs) : logs'[n] = logs[n]]_vars
\* Two records are held, the first inserted still first, and the viewer was
\* opened through the context.
C11_Witness ==
    /\ Len(logs) = 2
    /\ logs[1].id[1] = 1
    /\ openLoggerViewer
    /\ ctx.openLoggerViewer

\* C13: every published context value is a consistent pair: its length is the
\* number of records of its logs array, and that array is the collection as
\* it stood at the render (a prefix of the collection now).
C13_ConsistentSnapshot ==
    /\ ctx.length = Len(ctx.logs)
    /\ Len(ctx.logs) <= Len(logs)
    /\ \A n \in 1..Len(ctx.logs) : ctx.logs[n] = logs[n]
\* A snapshot of two records was published.
C13_Witness ==
    /\ ctx.length = 2
    /\ Len(ctx.logs) = 2

\* C19: for every effect run, once its cleanup has run and its listen promise
\* has resolved, f() has been called exactly once and the listener is gone,
\* whichever of the two came first; f() is never called twice; and from then
\* on no delivery addressed to that effect run's callback grows the collection.
UnlistenedOnce ==
    \A k \in Effects :
        /\ subs[k].unlistenCalls <= 1
        /\ (subs[k].cleanup /\ subs[k].resolved) =>
               (subs[k].unlistenCalls = 1 /\ subs[k].phase = "unlistened")
        /\ subs[k].unlistenCalls = 1 => subs[k].cleanup
C19_UnlistenOnce ==
    /\ []UnlistenedOnce
    /\ [][\A k \in Effects :
             (/\ subs[k].cleanup /\ subs[k].resolved
              /\ queue # <<>> /\ Head(queue).to = k /\ queue' = Tail(queue))
             => logs' = logs]_vars
\* StrictMode: the first effect run was cleaned up before its promise
\* resolved, and was unlistened when it did; the second is still live.
C19_Witness ==
    /\ subs[1].cleanup /\ subs[1].resolved /\ subs[1].unlistenCalls = 1
    /\ subs[2].phase = "listening"
    /\ app = "mounted"

\* C14: the optimize control keeps no error state: a failed invocation does
\* not prevent a further trigger, the step in which a command fails changes
\* neither the fetched state nor the view and badge drawn from it, and the
\* badge changes only in a step that resolves a guard fetch.
C14_NoRetainedError ==
    /\ []((app = "mounted" /\ nInv < MaxInvocations) => ENABLED HandleOptimize)
    /\ [][\A i \in Invocations :
             (inv[i].pc = "cmd" /\ inv'[i].pc = "failed") =>
                 (qData' = qData /\ Badge' = Badge /\ View' = View)]_vars
    /\ [][Badge' # Badge => (qCurrent # 0 /\ qCurrent' = 0 /\ qData' # qData)]_vars
\* After a failed invocation a further trigger has issued a new command,
\* while the badge shows what the last fetch returned.
C14_Witness ==
    /\ inv[1].pc = "failed"
    /\ inv[2].pc = "cmd"
    /\ inv[2].cmdCalls = 1
    /\ Badge = "optimize_no_exec"

\* C15 as stated: whenever the last outstanding guard fetch is answered with
\* a record list, that list is the state displayed afterwards (the fetch
\* resolving later wins).
C15_LaterResolvingWins ==
    [][\A res \in FetchResults :
          (/\ res.status = "ok"
           /\ inflight' = {}
           /\ \/ FetchResolve(res)
              \/ \E id \in 1..MaxFetches : FetchDiscard(id, res))
          => qData' = Data(res.data)]_vars
\* C15 as amended: two guard fetches are in flight at once only when a
\* refetch() has abandoned the earlier one; the query then waits for the
\* fetch issued last, whose record list becomes the state displayed, and the
\* answer of an abandoned fetch is dropped whenever it arrives.
LatestIssuedIsCurrent ==
    /\ qCurrent \in {0, fetchSeq}
    /\ \A id \in inflight : id <= fetchSeq
    /\ qCurrent # 0 => qCurrent \in inflight
C15_LaterIssuedWins ==
    /\ []LatestIssuedIsCurrent
    /\ [][(qCurrent # 0 /\ qCurrent \notin inflight') =>
              (/\ qCurrent = fetchSeq
               /\ \A d \in ProcLists : FetchResolve(Ok(d)) => qData' = Data(d))]_vars
    /\ [][\A id \in inflight \ inflight' :
             id # qCurrent =>
                 (id < fetchSeq /\ qData' = qData /\ qError' = qError)]_vars
\* The fetch issued last has resolved and is displayed while an abandoned,
\* earlier fetch is still unanswered.
C15_Witness ==
    /\ qCurrent = 0
    /\ qData # Undef
    /\ inflight # {}

\* C16: a failed guard fetch sets the query's error flag and nothing else:
\* in that step no notification is raised and no invocation fails; an
\* invocation awaiting its refetch can only go on to complete.
C16_RefetchFailureStaysInQuery ==
    /\ [][(qCurrent # 0 /\ qCurrent \notin inflight') =>
              \A e \in Errors :
                  FetchResolve(Err(e)) =>
                      (qError' /\ qData' = qData /\ toasts' = toasts /\ inv' = inv)]_vars
    /\ [][\A i \in Invocations :
             inv[i].pc = "refetch" =>
                 (/\ inv'[i].pc \in {"refetch", "done"}
                  /\ ToastsOf(i)' = ToastsOf(i))]_vars
\* The command succeeded, the refetch it started failed, and the invocation
\* completed without a notification.
C16_Witness ==
    \E i \in Invocations :
        /\ inv[i].pc = "done"
        /\ inv[i].fetched = fetchSeq
        /\ qCurrent = 0
        /\ qError
        /\ toasts = <<>>

\* C20: the view is the loader only while a fetch is in flight and no data
\* has been fetched; fetched records stay listed, with their badge, during
\* any later refetch; and a failed first fetch shows the same badge-less
\* "no processes" view as a fetched empty list.
C20_DashboardView ==
    /\ View \in {"loading", "empty", "list"}
    /\ View = "loading" => (qData = Undef /\ qCurrent # 0 /\ Badge = "none")
    /\ (qData # Undef /\ Len(qData.records) > 0) =>
           (View = "list" /\ Badge \in {"optimize_success", "optimize_no_exec"})
    /\ (qData = Undef /\ qCurrent = 0) => (View = "empty" /\ Badge = "none")
    /\ qData = Data(<<>>) => (View = "empty" /\ Badge = "none")
\* Records fetched earlier are listed while a refetch is in flight.
C20_Witness ==
    /\ qData = Data(<<FALSE>>)
    /\ qCurrent # 0
    /\ View = "list"
    /\ Badge = "optimize_no_exec"

\* C12: the viewer flag starts closed and changes only in a step of the open
\* button or of the close button; a step that delivers a log event, answers
\* a fetch or runs an optimize action leaves it as it was.
C12_ViewerOnlyByUser ==
    /\ openLoggerViewer = FALSE
    /\ [][openLoggerViewer' # openLoggerViewer =>
              (HandleViewerToggle \/ CloseViewer)]_vars
    /\ [][(\/ logs' # logs
           \/ queue' # queue
           \/ queryVars' # queryVars
           \/ inv' # inv
           \/ admin' # admin)
          => openLoggerViewer' = openLoggerViewer]_vars
\* A log was received, the guard state fetched and an optimize action
\* completed, and the viewer is still closed.
C12_Witness ==
    /\ ~openLoggerViewer
    /\ Len(logs) = 1
    /\ qData # Undef
    /\ inv[1].pc = "done"
    /\ admin.status = "success"

\* C17: the indicator shows the admin state only when the backend answered
\* true and the non-admin state only when it answered false, and only the
\* running-as-admin query's own steps change it.
C17_IndicatorFollowsAnswer ==
    /\ [](Indicator = "admin" => (admin.defined /\ admin.data))
    /\ [](Indicator = "not admin" => (admin.defined /\ ~admin.data))
    /\ [][Indicator' # Indicator =>
              (\/ \E res \in AdminResults : AdminResolve(res)
               \/ AdminIntervalRefetch)]_vars

\* C18: a capture command is dispatched only for a window id that is
\* non-empty and made of digits only, and an OCR command only with a
\* screenshot present and a region with x >= 0, y >= 0, width >= 1 and
\* height >= 1.
IsNumeric(w) == w # <<>> /\ \A n \in 1..Len(w) : w[n] \in Digits
C18_RejectedBeforeDispatch ==
    /\ [][(~debug.capturing /\ debug'.capturing) => IsNumeric(debug.windowId)]_vars
    /\ [][debug'.ocrs > debug.ocrs =>
              (/\ debug.screenShot
               /\ debug.region.x >= 0
               /\ debug.region.y >= 0
               /\ debug.region.width >= 1
               /\ debug.region.height >= 1)]_vars

====
